---------------------------- MODULE Spec2Model ----------------------------
(***************************************************************************)
(* The document grid of src/components/MongoDBDataTable.vue and the two    *)
(* entry points of src/App.vue that drive it, as a state machine.          *)
(*                                                                         *)
(* JavaScript runs each handler to completion between two awaits, so every *)
(* action below is one such run: the synchronous part of a handler up to   *)
(* its await, or the continuation after a remote call settles, or a timer  *)
(* firing.  The remote service (the Tauri backend) is not part of the      *)
(* repository: each pending call settles with any answer of its type.      *)
(***************************************************************************)
EXTENDS Integers, Sequences, FiniteSets, TLC

(***************************************************************************)
(* Bounds of the model.                                                    *)
(***************************************************************************)
\* Remote calls and retry timers outstanding at the same time.
MaxPending == 2
\* Successful inline commits in one behaviour.
MaxCommits == 1

(***************************************************************************)
(* Values.  A JSON value is [t |-> kind, v |-> canonical text]; the text   *)
(* of a composite is its compact serialisation.  Undefined is what reading *)
(* an absent property gives.                                               *)
(***************************************************************************)
Num(s)    == [t |-> "number",  v |-> s]
Str(s)    == [t |-> "string",  v |-> s]
Bool(s)   == [t |-> "boolean", v |-> s]
Null      == [t |-> "null",    v |-> "null"]
Arr(s)    == [t |-> "array",   v |-> s]
Obj(s)    == [t |-> "object",  v |-> s]
Undefined == [t |-> "undefined", v |-> "undefined"]
NaN       == Num("NaN")

\* JavaScript's typeof.
TypeOf(x) ==
  CASE x.t \in {"null", "array", "object"} -> "object"
    [] OTHER -> x.t

\* Texts whose whole content is a decimal number.
NumericTexts == {"5", "30", "31", "31.0"}

\* parseFloat on the texts of the model: the longest numeric prefix, NaN when
\* there is none.
ParseFloat(text) ==
  CASE text = "5"    -> Num("5")
    [] text = "30"   -> Num("30")
    [] text = "31"   -> Num("31")
    [] text = "31.0" -> Num("31")
    [] OTHER         -> NaN

\* The texts JSON.parse accepts, and what it returns for them.  Every other
\* text of the model ("abc", "Bob", "", "undefined", "NaN", "[1") throws.
JsonTexts ==
  {"5", "30", "31", "31.0", "true", "null",
   "[1]", "[\n  1\n]", "{\"a\":1}", "{\n  \"a\": 1\n}", "{}"}

JsonParse(text) ==
  CASE text \in {"5", "30", "31"}                   -> Num(text)
    [] text = "31.0"                                -> Num("31")
    [] text = "true"                                -> Bool("true")
    [] text = "null"                                -> Null
    [] text \in {"[1]", "[\n  1\n]"}                -> Arr("[1]")
    [] text \in {"{\"a\":1}", "{\n  \"a\": 1\n}"}   -> Obj("{\"a\":1}")
    [] text = "{}"                                  -> Obj("{}")

\* String(value) for a value that is not an object.
StringOf(x) == x.v

\* JSON.stringify(value): the compact form.
JsonStringify(x) == x.v

\* JSON.stringify(value, null, 2): one member per line, indented by two.
JsonStringifyIndent2(x) ==
  CASE x = Arr("[1]")       -> "[\n  1\n]"
    [] x = Obj("{\"a\":1}") -> "{\n  \"a\": 1\n}"
    [] OTHER                -> x.v

\* formatValue without the test of line 66.
formatValueOfAbsent(value) ==
  IF TypeOf(value) = "object" THEN JsonStringify(value) ELSE StringOf(value)

\* formatValue (MongoDBDataTable.vue:65-68).
formatValue(value) ==
  IF value = Undefined \/ value = Null THEN ""
  ELSE IF TypeOf(value) = "object" THEN JsonStringify(value)
  ELSE StringOf(value)

(***************************************************************************)
(* Records.  A document is its identifier and its other properties in      *)
(* insertion order; "_id" itself is always the first key.                  *)
(***************************************************************************)
Doc(oid, fields) == [oid |-> oid, fields |-> fields]
F(k, x) == [k |-> k, v |-> x]

HasKey(doc, h) == \E i \in 1..Len(doc.fields) : doc.fields[i].k = h

\* doc[header]
Get(doc, h) ==
  IF h = "_id" THEN Obj(doc.oid)
  ELSE IF HasKey(doc, h)
       THEN LET i == CHOOSE j \in 1..Len(doc.fields) : doc.fields[j].k = h
            IN doc.fields[i].v
       ELSE Undefined

\* doc[header] = x: an existing property keeps its place, a new one is added
\* last.
Put(doc, h, x) ==
  IF HasKey(doc, h)
  THEN [doc EXCEPT !.fields =
          [i \in 1..Len(doc.fields) |->
             IF doc.fields[i].k = h THEN F(h, x) ELSE doc.fields[i]]]
  ELSE [doc EXCEPT !.fields = Append(doc.fields, F(h, x))]

\* Object.keys(doc)
Keys(doc) == <<"_id">> \o [i \in 1..Len(doc.fields) |-> doc.fields[i].k]

(***************************************************************************)
(* What the remote service can answer.                                     *)
(***************************************************************************)
Collections == {"users", "orders"}

\* list_collections
CollectionLists == {<<>>, <<"users", "orders">>, <<"orders">>}

\* find_documents: two heterogeneous records, six records of one shape (two
\* pages at five rows a page), or nothing.
TypedDocs ==
  << Doc("A", <<F("name", Str("Bob")), F("ok", Bool("true")), F("note", Null)>>),
     Doc("B", <<F("age", Num("30")), F("tags", Arr("[1]")),
                F("meta", Obj("{\"a\":1}"))>>) >>

ManyIds == <<"M1", "M2", "M3", "M4", "M5", "M6">>
ManyDocs == [i \in 1..Len(ManyIds) |-> Doc(ManyIds[i], <<F("age", Num("30"))>>)]

Datasets == {TypedDocs, ManyDocs, <<>>}

\* Eleven records of one shape (three pages at five rows a page), and the two
\* records of a collection whose records share no field.
LongIds == <<"L01", "L02", "L03", "L04", "L05", "L06", "L07", "L08", "L09",
             "L10", "L11">>
LongDocs == [i \in 1..Len(LongIds) |-> Doc(LongIds[i], <<F("age", Num("30"))>>)]
UsersDocs ==
  << Doc("A", <<F("name", Str("Bob"))>>), Doc("B", <<F("age", Num("5"))>>) >>

\* Every answer of find_documents in the model.
Answers == Datasets \cup {LongDocs, UsersDocs}

\* An error message is the sequence of its parts; includes() looks for the
\* part the backend uses when no connection is open.
NotInitialized == "Database connection not initialized"
MsgNotReady == <<NotInitialized>>
MsgNotReadyWrapped == <<"find failed: ", NotInitialized, " (retry later)">>
MsgOther == <<"Collection not found">>
Messages == {MsgNotReady, MsgNotReadyWrapped, MsgOther}

\* message.includes(part)
Includes(message, part) == \E i \in 1..Len(message) : message[i] = part

\* What the operator types into the cell being edited.
UserTexts == {"31", "abc"}

\* The filter texts the operator types: one that parses, one that does not.
FilterTexts == {"{}", "{age:"}
FilterParses(text) == text = "{}"

(***************************************************************************)
(* The state.                                                              *)
(***************************************************************************)
VARIABLES
  \* MongoDBDataTable.vue:34-45, 155: the component's refs
  collectionName, documents, isLoading, errorMessage, pageSize, currentPage,
  filterQuery, editingCell, editValue, isSaving, collectionsList,
  \* remote calls that have not settled, and timers that have not fired
  findCalls,     \* find_documents: how many, by [coll, retry]
  listCalls,     \* list_collections: how many
  updCalls,      \* update_document issued by saveEdit: a set of call records
  delCalls,      \* delete_document issued by deleteDocument: a set of call records
  docTimers,     \* setTimeout(fetchDocuments, 1000) pending
  collTimers,    \* setTimeout(fetchCollections, 1000) pending
  \* history, read by the properties only
  docsFrom,      \* the find_documents call whose answer documents holds
  editRecId,     \* identifier of the record whose cell was activated
  nCommits,      \* commits applied locally so far
  \* the page: whether the editor of the cell being edited has the focus
  editorFocused,
  \* MongoDBOperations.vue:16-21: the operations panel's refs, and its remote
  \* calls that have not settled
  opsDocumentId, opsDocumentData, opsUpdateData, opsResultMessage,
  opsIsLoading, opsIsError, opsCalls

gridVars == <<collectionName, documents, isLoading, errorMessage, pageSize,
              currentPage, filterQuery, editingCell, editValue, isSaving,
              collectionsList>>
asyncVars == <<findCalls, listCalls, updCalls, delCalls, docTimers, collTimers>>
histVars == <<docsFrom, editRecId, nCommits>>
domVars == <<editorFocused>>
opsVars == <<opsDocumentId, opsDocumentData, opsUpdateData, opsResultMessage,
             opsIsLoading, opsIsError, opsCalls>>
vars == <<gridVars, asyncVars, histVars, domVars, opsVars>>

\* MongoDBOperations.vue:17-18: the texts the panel's two textareas start
\* with, in their compact form.
InitialDocumentData == "{\"name\":\"John Doe\",\"email\":\"john@example.com\",\"age\":30}"
InitialUpdateData == "{\"name\":\"Updated Name\"}"

\* Error texts, by the prefix the handler puts before the cause.
NoError          == ""
ErrInvalidFilter == "Invalid filter JSON: "
ErrFetchDocs     == "Error fetching documents: "
ErrUpdateField   == "Error updating field: "
ErrDeleteDoc     == "Error deleting document: "
ErrFetchColls    == "Error fetching collections: "

NoCell == [rowIndex |-> -1, header |-> ""]
NoCall == [coll |-> "", retry |-> FALSE]
FindCallKinds == [coll : Collections, retry : BOOLEAN]

\* pageSize is the number 10 until the rows-per-page Select writes the
\* chosen item's value, a string, into it.
PageSizeItems == {5, 10, 20, 50, 100}
InitialPageSize == [str |-> FALSE, n |-> 10]

Init ==
  /\ collectionName = "users"
  /\ documents = <<>>
  /\ isLoading = FALSE
  /\ errorMessage = NoError
  /\ pageSize = InitialPageSize
  /\ currentPage = 1
  /\ filterQuery = "{}"
  /\ editingCell = NoCell
  /\ editValue = ""
  /\ isSaving = FALSE
  /\ collectionsList = <<>>
  /\ findCalls = [k \in FindCallKinds |-> 0]
  /\ listCalls = 1               \* onMounted has called fetchCollections
  /\ updCalls = {}
  /\ delCalls = {}
  /\ docTimers = 0
  /\ collTimers = 0
  /\ docsFrom = NoCall
  /\ editRecId = ""
  /\ nCommits = 0
  /\ editorFocused = FALSE
  /\ opsDocumentId = ""
  /\ opsDocumentData = InitialDocumentData
  /\ opsUpdateData = InitialUpdateData
  /\ opsResultMessage = ""
  /\ opsIsLoading = FALSE
  /\ opsIsError = FALSE
  /\ opsCalls = {}

(***************************************************************************)
(* The computed properties (MongoDBDataTable.vue:48-63).                   *)
(***************************************************************************)
CeilDiv(a, b) == (a + b - 1) \div b

\* Number of decimal digits of n >= 0.
RECURSIVE Digits(_)
Digits(n) == IF n < 10 THEN 1 ELSE 1 + Digits(n \div 10)

RECURSIVE Pow10(_)
Pow10(k) == IF k = 0 THEN 1 ELSE 10 * Pow10(k - 1)

\* a + b: the sum of two numbers, the concatenation when b is a string (read
\* back as a number by slice).
Plus(a, b) == IF b.str THEN a * Pow10(Digits(b.n)) + b.n ELSE a + b.n

\* array.slice(start, end) for 0 <= start
Slice(arr, start, end) ==
  LET lo == IF start < Len(arr) THEN start ELSE Len(arr)
      hi == IF end < Len(arr) THEN end ELSE Len(arr)
  IN IF lo < hi THEN SubSeq(arr, lo + 1, hi) ELSE <<>>

TotalPagesOf(docs, size) == CeilDiv(Len(docs), size.n)
totalPages == TotalPagesOf(documents, pageSize)

PageOf(docs, size, page) ==
  LET start == (page - 1) * size.n
      end   == Plus(start, size)
  IN Slice(docs, start, end)
paginatedDocuments == PageOf(documents, pageSize, currentPage)

\* Insertion into an array instead of a Set: every key is appended.
AddAllKeepsDuplicates(headers, keys) == headers \o keys

\* Set insertion: a key already present keeps its place.
RECURSIVE AddAll(_, _)
AddAll(headers, keys) ==
  IF keys = <<>> THEN headers
  ELSE LET k == Head(keys)
           present == \E i \in 1..Len(headers) : headers[i] = k
       IN AddAll(IF present THEN headers ELSE Append(headers, k), Tail(keys))

RECURSIVE HeadersFrom(_, _)
HeadersFrom(headers, docs) ==
  IF docs = <<>> THEN headers
  ELSE HeadersFrom(AddAll(headers, Keys(Head(docs))), Tail(docs))

TableHeadersOf(docs) == HeadersFrom(<<"_id">>, docs)
tableHeaders == TableHeadersOf(documents)

(***************************************************************************)
(* Helpers of the actions.                                                 *)
(***************************************************************************)
Min(a, b) == IF a < b THEN a ELSE b
Max(a, b) == IF a > b THEN a ELSE b

\* Remote calls that have not settled and timers that have not fired.
FindPending ==
  findCalls[[coll |-> "users", retry |-> FALSE]]
  + findCalls[[coll |-> "users", retry |-> TRUE]]
  + findCalls[[coll |-> "orders", retry |-> FALSE]]
  + findCalls[[coll |-> "orders", retry |-> TRUE]]

Pending ==
  FindPending + listCalls + Cardinality(updCalls) + Cardinality(delCalls)
  + docTimers + collTimers

\* Room for n more outstanding calls or timers.
Room(n) == Pending + n <= MaxPending

Elems(seq) == {seq[i] : i \in 1..Len(seq)}

\* The template's v-if / v-else-if / v-else chain (lines 220-228): the table,
\* the pagination and the rows-per-page Select exist only in the v-else branch.
TableShown == ~isLoading /\ documents # <<>>
PaginationShown == TableShown /\ totalPages > 1

\* A row of the page and a column of the table being rendered.
CellShown(rowIndex, header) ==
  /\ TableShown
  /\ rowIndex \in 0..(Len(paginatedDocuments) - 1)
  /\ header \in Elems(tableHeaders)

\* The <Input> or <textarea> of the cell being edited is rendered (line 246).
EditorShown ==
  /\ editingCell # NoCell
  /\ CellShown(editingCell.rowIndex, editingCell.header)

\* A fetch replaces the array and its objects: a commit still waiting for its
\* answer holds a record that is no longer in documents.
Orphaned(calls) == {[u EXCEPT !.stale = TRUE] : u \in calls}

(***************************************************************************)
(* fetchDocuments (MongoDBDataTable.vue:70-97).                            *)
(***************************************************************************)
\* Lines 71-84 without the return of line 79: the filter that does not parse
\* is reported and find_documents is invoked all the same.
FetchDocumentsStartWithoutReturn(coll, retry) ==
  /\ isLoading' = TRUE
  /\ errorMessage' = IF FilterParses(filterQuery) THEN NoError ELSE ErrInvalidFilter
  /\ findCalls' = [findCalls EXCEPT ![[coll |-> coll, retry |-> retry]] = @ + 1]

\* Lines 71-84: up to the await.  A filter that does not parse returns
\* through the finally block at once.
FetchDocumentsStart(coll, retry) ==
  IF FilterParses(filterQuery)
  THEN /\ isLoading' = TRUE
       /\ errorMessage' = NoError
       /\ findCalls' = [findCalls EXCEPT ![[coll |-> coll, retry |-> retry]] = @ + 1]
  ELSE /\ isLoading' = FALSE
       /\ errorMessage' = ErrInvalidFilter
       /\ UNCHANGED findCalls

\* Lines 81 and 95 without line 85: the page is not reset.
FindResolvedKeepsPage(call, result) ==
  /\ findCalls[call] > 0
  /\ result \in Answers
  /\ findCalls' = [findCalls EXCEPT ![call] = @ - 1]
  /\ documents' = result
  /\ isLoading' = FALSE
  /\ updCalls' = Orphaned(updCalls)
  /\ docsFrom' = call
  /\ UNCHANGED <<collectionName, errorMessage, pageSize, currentPage, filterQuery,
                 editingCell, editValue, isSaving, collectionsList,
                 listCalls, delCalls, docTimers, collTimers, editRecId, nCommits,
                 domVars, opsVars>>

\* Lines 81, 85, 95: find_documents resolved.
FindResolved(call, result) ==
  /\ findCalls[call] > 0
  /\ result \in Answers
  /\ findCalls' = [findCalls EXCEPT ![call] = @ - 1]
  /\ documents' = result
  /\ currentPage' = 1
  /\ isLoading' = FALSE
  /\ updCalls' = Orphaned(updCalls)
  /\ docsFrom' = call
  /\ UNCHANGED <<collectionName, errorMessage, pageSize, filterQuery,
                 editingCell, editValue, isSaving, collectionsList,
                 listCalls, delCalls, docTimers, collTimers, editRecId, nCommits,
                 domVars, opsVars>>

\* The catch block of lines 86-93 reporting the failure it is about to retry.
FetchDocumentsCatchReportsRetry(message) ==
  IF Includes(message, NotInitialized)
  THEN /\ docTimers' = docTimers + 1
       /\ errorMessage' = ErrFetchDocs
       /\ UNCHANGED <<documents, updCalls, docsFrom>>
  ELSE /\ errorMessage' = ErrFetchDocs
       /\ documents' = <<>>
       /\ updCalls' = Orphaned(updCalls)
       /\ docsFrom' = NoCall
       /\ UNCHANGED docTimers

\* Lines 86-93: the catch block.
FetchDocumentsCatch(message) ==
  IF Includes(message, NotInitialized)
  THEN /\ docTimers' = docTimers + 1
       /\ UNCHANGED <<errorMessage, documents, updCalls, docsFrom>>
  ELSE /\ errorMessage' = ErrFetchDocs
       /\ documents' = <<>>
       /\ updCalls' = Orphaned(updCalls)
       /\ docsFrom' = NoCall
       /\ UNCHANGED docTimers

\* Lines 86-95: find_documents rejected.
FindRejected(call, message) ==
  /\ findCalls[call] > 0
  /\ message \in Messages
  /\ findCalls' = [findCalls EXCEPT ![call] = @ - 1]
  /\ FetchDocumentsCatch(message)
  /\ isLoading' = FALSE
  /\ UNCHANGED <<collectionName, pageSize, currentPage, filterQuery,
                 editingCell, editValue, isSaving, collectionsList,
                 listCalls, delCalls, collTimers, editRecId, nCommits,
                 domVars, opsVars>>

\* Line 89: the retry timer fires and calls fetchDocuments.
DocTimerFires ==
  /\ docTimers > 0
  /\ docTimers' = docTimers - 1
  /\ FetchDocumentsStart(collectionName, TRUE)
  /\ UNCHANGED <<collectionName, documents, pageSize, currentPage, filterQuery,
                 editingCell, editValue, isSaving, collectionsList,
                 listCalls, updCalls, delCalls, collTimers, histVars,
                 domVars, opsVars>>

\* Line 208: the Filter button, disabled while isLoading.
FilterClick ==
  /\ ~isLoading
  /\ Room(1)
  /\ FetchDocumentsStart(collectionName, FALSE)
  /\ UNCHANGED <<collectionName, documents, pageSize, currentPage, filterQuery,
                 editingCell, editValue, isSaving, collectionsList,
                 listCalls, updCalls, delCalls, docTimers, collTimers, histVars,
                 domVars, opsVars>>

\* Line 207: v-model="filterQuery".
FilterInput(text) ==
  /\ text \in FilterTexts
  /\ text # filterQuery
  /\ filterQuery' = text
  /\ UNCHANGED <<collectionName, documents, isLoading, errorMessage, pageSize,
                 currentPage, editingCell, editValue, isSaving, collectionsList,
                 asyncVars, histVars, domVars, opsVars>>

\* Lines 192 and 182: the collection Select writes collectionName and the
\* watcher calls fetchDocuments before anything else runs.
SelectCollection(coll) ==
  /\ coll \in Elems(collectionsList)
  /\ coll # collectionName
  /\ Room(1)
  /\ collectionName' = coll
  /\ FetchDocumentsStart(coll, FALSE)
  /\ UNCHANGED <<documents, pageSize, currentPage, filterQuery,
                 editingCell, editValue, isSaving, collectionsList,
                 listCalls, updCalls, delCalls, docTimers, collTimers, histVars,
                 domVars, opsVars>>

(***************************************************************************)
(* fetchCollections (MongoDBDataTable.vue:155-170).                        *)
(***************************************************************************)
\* Lines 158-161 without the watcher of line 182: the selection moves and
\* nothing is fetched.
ListResolvedUnwatched(list) ==
  /\ listCalls > 0
  /\ list \in CollectionLists
  /\ listCalls' = listCalls - 1
  /\ collectionsList' = list
  /\ collectionName' = IF Len(list) > 0 /\ collectionName \notin Elems(list)
                       THEN list[1] ELSE collectionName
  /\ UNCHANGED <<documents, isLoading, errorMessage, pageSize, currentPage,
                 filterQuery, editingCell, editValue, isSaving, findCalls,
                 updCalls, delCalls, docTimers, collTimers, histVars,
                 domVars, opsVars>>

\* Lines 158-161: list_collections resolved.  Writing a new collectionName
\* runs the watcher of line 182.
ListResolved(list) ==
  /\ listCalls > 0
  /\ list \in CollectionLists
  /\ listCalls' = listCalls - 1
  /\ collectionsList' = list
  /\ IF Len(list) > 0 /\ collectionName \notin Elems(list)
     THEN /\ collectionName' = list[1]
          /\ FetchDocumentsStart(list[1], FALSE)
     ELSE UNCHANGED <<collectionName, isLoading, errorMessage, findCalls>>
  /\ UNCHANGED <<documents, pageSize, currentPage, filterQuery, editingCell,
                 editValue, isSaving, updCalls, delCalls, docTimers, collTimers,
                 histVars, domVars, opsVars>>

\* The catch block of lines 162-169 retrying after every failure.
FetchCollectionsCatchRetriesAll(message) ==
  /\ collTimers' = collTimers + 1
  /\ IF Includes(message, NotInitialized)
     THEN UNCHANGED errorMessage
     ELSE errorMessage' = ErrFetchColls

\* Lines 162-169: the catch block.
FetchCollectionsCatch(message) ==
  IF Includes(message, NotInitialized)
  THEN /\ collTimers' = collTimers + 1
       /\ UNCHANGED errorMessage
  ELSE /\ errorMessage' = ErrFetchColls
       /\ UNCHANGED collTimers

ListRejected(message) ==
  /\ listCalls > 0
  /\ message \in Messages
  /\ listCalls' = listCalls - 1
  /\ FetchCollectionsCatch(message)
  /\ UNCHANGED <<collectionName, documents, isLoading, pageSize, currentPage,
                 filterQuery, editingCell, editValue, isSaving, collectionsList,
                 findCalls, updCalls, delCalls, docTimers, histVars,
                 domVars, opsVars>>

\* Line 165: the retry timer fires and calls fetchCollections.
CollTimerFires ==
  /\ collTimers > 0
  /\ collTimers' = collTimers - 1
  /\ listCalls' = listCalls + 1
  /\ UNCHANGED <<gridVars, findCalls, updCalls, delCalls, docTimers, histVars,
                 domVars, opsVars>>

(***************************************************************************)
(* src/App.vue: the parent's calls through defineExpose (line 176).        *)
(***************************************************************************)
\* App.vue:31-34: autoConnectMongoDB, once connect_mongodb has resolved and
\* the 500 ms delay has passed, refreshes the grid.
AutoConnectRefresh ==
  /\ Room(1)
  /\ FetchDocumentsStart(collectionName, FALSE)
  /\ UNCHANGED <<collectionName, documents, pageSize, currentPage, filterQuery,
                 editingCell, editValue, isSaving, collectionsList,
                 listCalls, updCalls, delCalls, docTimers, collTimers, histVars,
                 domVars, opsVars>>

\* App.vue:44-50: handleDocumentAction.
HandleDocumentAction ==
  /\ Room(2)
  /\ FetchDocumentsStart(collectionName, FALSE)
  /\ listCalls' = listCalls + 1
  /\ UNCHANGED <<collectionName, documents, pageSize, currentPage, filterQuery,
                 editingCell, editValue, isSaving, collectionsList,
                 updCalls, delCalls, docTimers, collTimers, histVars,
                 domVars, opsVars>>

(***************************************************************************)
(* Inline editing (MongoDBDataTable.vue:99-140).                           *)
(***************************************************************************)
\* Lines 99-103 without the return of line 100.
HandleCellClickAnyColumn(rowIndex, header) ==
  /\ CellShown(rowIndex, header)
  /\ [rowIndex |-> rowIndex, header |-> header] # editingCell
  /\ LET doc   == paginatedDocuments[rowIndex + 1]
         value == Get(doc, header)
     IN /\ editingCell' = [rowIndex |-> rowIndex, header |-> header]
        /\ editValue' = IF TypeOf(value) = "object"
                        THEN JsonStringifyIndent2(value)
                        ELSE StringOf(value)
        /\ editRecId' = doc.oid
  /\ UNCHANGED <<collectionName, documents, isLoading, errorMessage, pageSize,
                 currentPage, filterQuery, isSaving, collectionsList,
                 asyncVars, docsFrom, nCommits, domVars, opsVars>>

\* Lines 99-103, called from line 264 with doc[header] of the row clicked.
HandleCellClick(rowIndex, header) ==
  /\ CellShown(rowIndex, header)
  /\ [rowIndex |-> rowIndex, header |-> header] # editingCell
  /\ LET doc   == paginatedDocuments[rowIndex + 1]
         value == Get(doc, header)
     IN IF header = "_id"
        THEN UNCHANGED <<editingCell, editValue, editRecId>>
        ELSE /\ editingCell' = [rowIndex |-> rowIndex, header |-> header]
             /\ editValue' = IF TypeOf(value) = "object"
                             THEN JsonStringifyIndent2(value)
                             ELSE StringOf(value)
             /\ editRecId' = doc.oid
  /\ UNCHANGED <<collectionName, documents, isLoading, errorMessage, pageSize,
                 currentPage, filterQuery, isSaving, collectionsList,
                 asyncVars, docsFrom, nCommits, domVars, opsVars>>

\* Lines 249 and 255: v-model="editValue".
EditInput(text) ==
  /\ EditorShown
  /\ text \in UserTexts
  /\ text # editValue
  /\ editValue' = text
  /\ UNCHANGED <<collectionName, documents, isLoading, errorMessage, pageSize,
                 currentPage, filterQuery, editingCell, isSaving, collectionsList,
                 asyncVars, histVars, domVars, opsVars>>

\* Lines 109-111: the row of the page, and the first record of documents with
\* its identifier (0 when there is none).
EditedDoc == paginatedDocuments[editingCell.rowIndex + 1]
OriginalIdx ==
  IF \E i \in 1..Len(documents) : documents[i].oid = EditedDoc.oid
  THEN CHOOSE i \in 1..Len(documents) :
         /\ documents[i].oid = EditedDoc.oid
         /\ \A j \in 1..(i - 1) : documents[j].oid # EditedDoc.oid
  ELSE 0

\* The coercion of lines 116-121 without its numeric branch.
CoerceWithoutParseFloat(ref, text) ==
  IF TypeOf(ref) = "object" THEN JsonParse(text) ELSE Str(text)

\* Lines 116-121: whether the coercion throws, and its result when not.
CoercionThrows(ref, text) == TypeOf(ref) = "object" /\ text \notin JsonTexts
Coerce(ref, text) ==
  IF TypeOf(ref) = "number" THEN ParseFloat(text)
  ELSE IF TypeOf(ref) = "object" THEN JsonParse(text)
  ELSE Str(text)

\* The guard of line 106 without its isSaving test.
SaveEditRunsWhileSaving ==
  /\ EditorShown
  /\ OriginalIdx # 0

\* saveEdit is called by blur, Enter or Ctrl+Enter on the editor (lines
\* 250-257) and passes the guard of line 106.
SaveEditRuns ==
  /\ EditorShown
  /\ ~isSaving
  /\ OriginalIdx # 0

\* Lines 105-121, 135-138 with a catch block that swallows the exception.
SaveEditThrowsSilently ==
  /\ SaveEditRuns
  /\ CoercionThrows(Get(documents[OriginalIdx], editingCell.header), editValue)
  /\ editingCell' = NoCell
  /\ isSaving' = FALSE
  /\ UNCHANGED <<collectionName, documents, isLoading, errorMessage, pageSize,
                 currentPage, filterQuery, editValue, collectionsList,
                 asyncVars, histVars, domVars, opsVars>>

\* Lines 105-121, 135-138: JSON.parse throws, the catch block reports it.
SaveEditThrows ==
  /\ SaveEditRuns
  /\ CoercionThrows(Get(documents[OriginalIdx], editingCell.header), editValue)
  /\ errorMessage' = ErrUpdateField
  /\ isSaving' = FALSE
  /\ UNCHANGED <<collectionName, documents, isLoading, pageSize, currentPage,
                 filterQuery, editingCell, editValue, collectionsList,
                 asyncVars, histVars, domVars, opsVars>>

\* Lines 105-128: up to the await of update_document.  The call record keeps
\* what the continuation holds (the record, by its place in documents) and,
\* for the properties, the reference value, the text and the activated record.
SaveEditInvokes ==
  /\ SaveEditRuns
  /\ Room(1)
  /\ nCommits < MaxCommits
  /\ LET header == editingCell.header
         ref    == Get(documents[OriginalIdx], header)
     IN /\ ~CoercionThrows(ref, editValue)
        /\ updCalls' = updCalls \cup
             {[coll |-> collectionName, id |-> EditedDoc.oid, header |-> header,
               value |-> Coerce(ref, editValue), idx |-> OriginalIdx,
               stale |-> FALSE, ref |-> ref, text |-> editValue,
               activated |-> editRecId]}
  /\ isSaving' = TRUE
  /\ UNCHANGED <<collectionName, documents, isLoading, errorMessage, pageSize,
                 currentPage, filterQuery, editingCell, editValue,
                 collectionsList, findCalls, listCalls, delCalls, docTimers,
                 collTimers, histVars, domVars, opsVars>>

\* Lines 130-134, 138: update_document resolved.
UpdateResolved(u, success) ==
  /\ u \in updCalls
  /\ success \in BOOLEAN
  /\ updCalls' = updCalls \ {u}
  /\ IF success /\ ~u.stale
     THEN documents' = [documents EXCEPT ![u.idx] = Put(@, u.header, u.value)]
     ELSE UNCHANGED documents
  /\ nCommits' = IF success THEN nCommits + 1 ELSE nCommits
  /\ editingCell' = NoCell
  /\ isSaving' = FALSE
  /\ UNCHANGED <<collectionName, isLoading, errorMessage, pageSize, currentPage,
                 filterQuery, editValue, collectionsList, findCalls, listCalls,
                 delCalls, docTimers, collTimers, docsFrom, editRecId,
                 domVars, opsVars>>

\* Lines 135-138: update_document rejected.
UpdateRejected(u) ==
  /\ u \in updCalls
  /\ updCalls' = updCalls \ {u}
  /\ errorMessage' = ErrUpdateField
  /\ isSaving' = FALSE
  /\ UNCHANGED <<collectionName, documents, isLoading, pageSize, currentPage,
                 filterQuery, editingCell, editValue, collectionsList,
                 findCalls, listCalls, delCalls, docTimers, collTimers, histVars,
                 domVars, opsVars>>

(***************************************************************************)
(* The editor's focus (MongoDBDataTable.vue:246-260).  The <Input> or      *)
(* <textarea> of the cell being edited is not focused when it is rendered: *)
(* the operator clicks into it.  When a render removes the focused         *)
(* element, the browser may dispatch its blur event or not, depending on   *)
(* the engine; the listener of line 250 or 256 then runs saveEdit in the   *)
(* state the render was made from.                                         *)
(***************************************************************************)
FocusEditor ==
  /\ EditorShown
  /\ ~editorFocused
  /\ editorFocused' = TRUE
  /\ UNCHANGED <<gridVars, asyncVars, histVars, opsVars>>

\* The focused editor is no longer rendered.
Detached == editorFocused /\ ~EditorShown

\* Lines 105-140 run from the blur of a removed editor.  The row of line 110
\* can be missing: documents.find then returns undefined without calling
\* its callback when documents is empty (line 112 returns), and its callback
\* throws on doc._id otherwise; both leave saveEdit after line 107 and before
\* the try block.
SaveEditDetached ==
  /\ isSaving' = TRUE
  /\ IF editingCell.rowIndex >= Len(paginatedDocuments)
     THEN UNCHANGED <<errorMessage, updCalls>>
     ELSE LET header == editingCell.header
              ref    == Get(documents[OriginalIdx], header)
          IN IF CoercionThrows(ref, editValue)
             THEN FALSE
             ELSE /\ Room(1)
                  /\ nCommits < MaxCommits
                  /\ updCalls' = updCalls \cup
                       {[coll |-> collectionName, id |-> EditedDoc.oid,
                         header |-> header, value |-> Coerce(ref, editValue),
                         idx |-> OriginalIdx, stale |-> FALSE, ref |-> ref,
                         text |-> editValue, activated |-> editRecId]}
                  /\ UNCHANGED errorMessage

\* Lines 105-121, 135-138 run from the blur of a removed editor: the
\* coercion throws, the catch block reports it and isSaving is false again.
SaveEditDetachedThrows ==
  /\ editingCell.rowIndex < Len(paginatedDocuments)
  /\ CoercionThrows(Get(documents[OriginalIdx], editingCell.header), editValue)
  /\ errorMessage' = ErrUpdateField
  /\ UNCHANGED <<isSaving, updCalls>>

RemovalBlur(dispatched) ==
  /\ Detached
  /\ dispatched \in BOOLEAN
  /\ editorFocused' = FALSE
  /\ IF dispatched /\ editingCell # NoCell /\ ~isSaving
     THEN SaveEditDetached \/ SaveEditDetachedThrows
     ELSE UNCHANGED <<errorMessage, isSaving, updCalls>>
  /\ UNCHANGED <<collectionName, documents, isLoading, pageSize, currentPage,
                 filterQuery, editingCell, editValue, collectionsList,
                 findCalls, listCalls, delCalls, docTimers, collTimers,
                 histVars, opsVars>>

(***************************************************************************)
(* deleteDocument (MongoDBDataTable.vue:142-153).                          *)
(***************************************************************************)
\* Lines 143-148, called from line 275 with the row's identifier.
DeleteDocument(rowIndex, confirmed) ==
  /\ TableShown
  /\ rowIndex \in 0..(Len(paginatedDocuments) - 1)
  /\ confirmed \in BOOLEAN
  /\ IF confirmed
     THEN /\ Room(1)
          /\ delCalls' = delCalls \cup
               {[coll |-> collectionName, id |-> paginatedDocuments[rowIndex + 1].oid]}
     ELSE UNCHANGED delCalls
  /\ UNCHANGED <<gridVars, findCalls, listCalls, updCalls, docTimers, collTimers,
                 histVars, domVars, opsVars>>

\* Line 149 removing the row from documents instead of fetching.
DeleteResolvedSplices(d, success) ==
  /\ d \in delCalls
  /\ success \in BOOLEAN
  /\ delCalls' = delCalls \ {d}
  /\ documents' = IF success
                  THEN SelectSeq(documents, LAMBDA doc : doc.oid # d.id)
                  ELSE documents
  /\ updCalls' = IF success THEN Orphaned(updCalls) ELSE updCalls
  /\ UNCHANGED <<collectionName, isLoading, errorMessage, pageSize, currentPage,
                 filterQuery, editingCell, editValue, isSaving, collectionsList,
                 findCalls, listCalls, docTimers, collTimers, histVars,
                 domVars, opsVars>>

\* Line 149: delete_document resolved.
DeleteResolved(d, success) ==
  /\ d \in delCalls
  /\ success \in BOOLEAN
  /\ delCalls' = delCalls \ {d}
  /\ IF success
     THEN FetchDocumentsStart(collectionName, FALSE)
     ELSE UNCHANGED <<isLoading, errorMessage, findCalls>>
  /\ UNCHANGED <<collectionName, documents, pageSize, currentPage, filterQuery,
                 editingCell, editValue, isSaving, collectionsList,
                 listCalls, updCalls, docTimers, collTimers, histVars,
                 domVars, opsVars>>

\* Lines 150-152: delete_document rejected.
DeleteRejected(d) ==
  /\ d \in delCalls
  /\ delCalls' = delCalls \ {d}
  /\ errorMessage' = ErrDeleteDoc
  /\ UNCHANGED <<collectionName, documents, isLoading, pageSize, currentPage,
                 filterQuery, editingCell, editValue, isSaving, collectionsList,
                 findCalls, listCalls, updCalls, docTimers, collTimers, histVars,
                 domVars, opsVars>>

(***************************************************************************)
(* Pagination (MongoDBDataTable.vue:178-180, 284-320).                     *)
(***************************************************************************)
SetPage(page) ==
  /\ currentPage' = page
  /\ UNCHANGED <<collectionName, documents, isLoading, errorMessage, pageSize,
                 filterQuery, editingCell, editValue, isSaving, collectionsList,
                 asyncVars, histVars, domVars, opsVars>>

\* Line 289
PaginationFirst == PaginationShown /\ currentPage # 1 /\ SetPage(1)
\* Lines 292-293
PaginationPrev == PaginationShown /\ currentPage # 1 /\ SetPage(Max(1, currentPage - 1))
\* Lines 296-297 without Math.min.
PaginationNextUnbounded ==
  PaginationShown /\ currentPage # totalPages /\ SetPage(currentPage + 1)

\* Lines 296-297
PaginationNext ==
  PaginationShown /\ currentPage # totalPages /\ SetPage(Min(totalPages, currentPage + 1))
\* Lines 300-301
PaginationLast == PaginationShown /\ currentPage # totalPages /\ SetPage(totalPages)

\* Lines 309-319: v-model="pageSize" on the rows-per-page Select, whose items
\* carry the strings "5" ... "100".
SelectPageSize(n) ==
  /\ TableShown
  /\ n \in PageSizeItems
  /\ pageSize # [str |-> TRUE, n |-> n]
  /\ pageSize' = [str |-> TRUE, n |-> n]
  /\ UNCHANGED <<collectionName, documents, isLoading, errorMessage, currentPage,
                 filterQuery, editingCell, editValue, isSaving, collectionsList,
                 asyncVars, histVars, domVars, opsVars>>

(***************************************************************************)
(* The operations panel (MongoDBOperations.vue) and the event it sends to  *)
(* the application (App.vue:44-50, 71).                                    *)
(***************************************************************************)
\* The texts the operator leaves in the panel's two textareas: the initial
\* one, which JSON.parse accepts, and one it rejects.
OpsDocumentTexts == {InitialDocumentData, "{name:"}
OpsUpdateTexts == {InitialUpdateData, "{name:"}

\* The identifiers the operator types, and the ones insert_document answers.
OpsTypedIds == {"", "a1"}
OpsInsertedIds == {"n1"}

\* MongoDBOperations.vue:26: whether JSON.parse returns for a panel text.
OpsJsonParses(text) == text \in {InitialDocumentData, InitialUpdateData}

\* Result texts, by the prefix the handler puts before the detail.
OpsInvalidJson      == "Invalid JSON: "
OpsInserted         == "Document inserted with ID: "
OpsErrInsert        == "Error inserting document: "
OpsIdRequiredUpdate == "Document ID is required for update"
OpsUpdated          == "Document updated successfully"
OpsNotUpdated       == "No document was updated (ID might not exist)"
OpsErrUpdate        == "Error updating document: "
OpsIdRequiredDelete == "Document ID is required for deletion"
OpsDeleted          == "Document deleted successfully"
OpsNotDeleted       == "No document was deleted (ID might not exist)"
OpsErrDelete        == "Error deleting document: "

\* What a handler of the panel leaves alone in the grid when it sends no event.
OpsGridFrame ==
  <<collectionName, documents, pageSize, currentPage, filterQuery, editingCell,
    editValue, isSaving, collectionsList, updCalls, delCalls, docTimers,
    collTimers, histVars, domVars>>

\* emits('documentAction', ...) (lines 52, 89, 126) runs App.vue's
\* handleDocumentAction at once: fetchDocuments, then fetchCollections.
EmitDocumentAction ==
  /\ Room(2)
  /\ FetchDocumentsStart(collectionName, FALSE)
  /\ listCalls' = listCalls + 1
  /\ UNCHANGED OpsGridFrame

\* A handler step that sends no event.
NoDocumentAction ==
  UNCHANGED <<OpsGridFrame, isLoading, errorMessage, findCalls, listCalls>>

\* v-model of the two textareas and of the identifier input (lines 168, 186,
\* 202).
OpsDocumentInput(text) ==
  /\ text # opsDocumentData
  /\ opsDocumentData' = text
  /\ NoDocumentAction
  /\ UNCHANGED <<opsDocumentId, opsUpdateData, opsResultMessage, opsIsLoading,
                 opsIsError, opsCalls>>

OpsUpdateInput(text) ==
  /\ text # opsUpdateData
  /\ opsUpdateData' = text
  /\ NoDocumentAction
  /\ UNCHANGED <<opsDocumentId, opsDocumentData, opsResultMessage, opsIsLoading,
                 opsIsError, opsCalls>>

OpsIdInput(id) ==
  /\ id # opsDocumentId
  /\ opsDocumentId' = id
  /\ NoDocumentAction
  /\ UNCHANGED <<opsDocumentData, opsUpdateData, opsResultMessage, opsIsLoading,
                 opsIsError, opsCalls>>

\* Lines 34-46, 59-61: insertDocument up to its await, or to the return of
\* line 41 through the finally block.  The button is disabled while isLoading
\* (line 174).
OpsInsertDocument ==
  /\ ~opsIsLoading
  /\ IF OpsJsonParses(opsDocumentData)
     THEN /\ opsIsLoading' = TRUE
          /\ opsIsError' = FALSE
          /\ opsResultMessage' = ""
          /\ opsCalls' = opsCalls \cup {[kind |-> "insert", id |-> ""]}
     ELSE /\ opsIsLoading' = FALSE
          /\ opsIsError' = TRUE
          /\ opsResultMessage' = OpsInvalidJson
          /\ opsCalls' = opsCalls
  /\ NoDocumentAction
  /\ UNCHANGED <<opsDocumentId, opsDocumentData, opsUpdateData>>

\* Lines 48-55, 59-61: insert_document resolved with the new identifier.
OpsInsertResolved(call, id) ==
  /\ call \in opsCalls
  /\ call.kind = "insert"
  /\ opsCalls' = opsCalls \ {call}
  /\ opsResultMessage' = OpsInserted
  /\ opsDocumentId' = id
  /\ EmitDocumentAction
  /\ opsIsLoading' = FALSE
  /\ UNCHANGED <<opsDocumentData, opsUpdateData, opsIsError>>

\* Lines 56-61: insert_document rejected.
OpsInsertRejected(call) ==
  /\ call \in opsCalls
  /\ call.kind = "insert"
  /\ opsCalls' = opsCalls \ {call}
  /\ opsIsError' = TRUE
  /\ opsResultMessage' = OpsErrInsert
  /\ opsIsLoading' = FALSE
  /\ NoDocumentAction
  /\ UNCHANGED <<opsDocumentId, opsDocumentData, opsUpdateData>>

\* Lines 64-83, 99-101: updateDocument up to its await, or to one of its two
\* returns.  The button is disabled while isLoading or without an identifier
\* (line 208).
OpsUpdateDocument ==
  /\ ~(opsIsLoading \/ opsDocumentId = "")
  /\ IF opsDocumentId = ""
     THEN /\ opsIsError' = TRUE
          /\ opsResultMessage' = OpsIdRequiredUpdate
          /\ UNCHANGED <<opsIsLoading, opsCalls>>
     ELSE IF OpsJsonParses(opsUpdateData)
     THEN /\ opsIsLoading' = TRUE
          /\ opsIsError' = FALSE
          /\ opsResultMessage' = ""
          /\ opsCalls' = opsCalls \cup {[kind |-> "update", id |-> opsDocumentId]}
     ELSE /\ opsIsLoading' = FALSE
          /\ opsIsError' = TRUE
          /\ opsResultMessage' = OpsInvalidJson
          /\ opsCalls' = opsCalls
  /\ NoDocumentAction
  /\ UNCHANGED <<opsDocumentId, opsDocumentData, opsUpdateData>>

\* Lines 85-95, 99-101 with the event sent whatever update_document answered.
OpsUpdateResolvedEmitsAlways(call, success) ==
  /\ call \in opsCalls
  /\ call.kind = "update"
  /\ opsCalls' = opsCalls \ {call}
  /\ opsResultMessage' = IF success THEN OpsUpdated ELSE OpsNotUpdated
  /\ EmitDocumentAction
  /\ opsIsLoading' = FALSE
  /\ UNCHANGED <<opsDocumentId, opsDocumentData, opsUpdateData, opsIsError>>

\* Lines 85-95, 99-101: update_document resolved.
OpsUpdateResolved(call, success) ==
  /\ call \in opsCalls
  /\ call.kind = "update"
  /\ opsCalls' = opsCalls \ {call}
  /\ IF success
     THEN /\ opsResultMessage' = OpsUpdated
          /\ EmitDocumentAction
     ELSE /\ opsResultMessage' = OpsNotUpdated
          /\ NoDocumentAction
  /\ opsIsLoading' = FALSE
  /\ UNCHANGED <<opsDocumentId, opsDocumentData, opsUpdateData, opsIsError>>

\* Lines 96-101: update_document rejected.
OpsUpdateRejected(call) ==
  /\ call \in opsCalls
  /\ call.kind = "update"
  /\ opsCalls' = opsCalls \ {call}
  /\ opsIsError' = TRUE
  /\ opsResultMessage' = OpsErrUpdate
  /\ opsIsLoading' = FALSE
  /\ NoDocumentAction
  /\ UNCHANGED <<opsDocumentId, opsDocumentData, opsUpdateData>>

\* Lines 104-119, 136-138: deleteDocument up to its await, or to the return
\* of line 108.  The button is disabled while isLoading or without an
\* identifier (line 219).
OpsDeleteDocument ==
  /\ ~(opsIsLoading \/ opsDocumentId = "")
  /\ IF opsDocumentId = ""
     THEN /\ opsIsError' = TRUE
          /\ opsResultMessage' = OpsIdRequiredDelete
          /\ UNCHANGED <<opsIsLoading, opsCalls>>
     ELSE /\ opsIsLoading' = TRUE
          /\ opsIsError' = FALSE
          /\ opsResultMessage' = ""
          /\ opsCalls' = opsCalls \cup {[kind |-> "delete", id |-> opsDocumentId]}
  /\ NoDocumentAction
  /\ UNCHANGED <<opsDocumentId, opsDocumentData, opsUpdateData>>

\* Lines 121-132, 136-138: delete_document resolved.
OpsDeleteResolved(call, success) ==
  /\ call \in opsCalls
  /\ call.kind = "delete"
  /\ opsCalls' = opsCalls \ {call}
  /\ IF success
     THEN /\ opsResultMessage' = OpsDeleted
          /\ opsDocumentId' = ""
          /\ EmitDocumentAction
     ELSE /\ opsResultMessage' = OpsNotDeleted
          /\ opsDocumentId' = opsDocumentId
          /\ NoDocumentAction
  /\ opsIsLoading' = FALSE
  /\ UNCHANGED <<opsDocumentData, opsUpdateData, opsIsError>>

\* Lines 133-138: delete_document rejected.
OpsDeleteRejected(call) ==
  /\ call \in opsCalls
  /\ call.kind = "delete"
  /\ opsCalls' = opsCalls \ {call}
  /\ opsIsError' = TRUE
  /\ opsResultMessage' = OpsErrDelete
  /\ opsIsLoading' = FALSE
  /\ NoDocumentAction
  /\ UNCHANGED <<opsDocumentId, opsDocumentData, opsUpdateData>>

(***************************************************************************)
(* The specifications.  The grid's handlers are independent enough that    *)
(* their product is out of reach of exhaustive search, so the behaviours   *)
(* are explored in groups that share the fetch of the records, among them  *)
(* the loaders with everything that calls them; an editing session on      *)
(* records of every value type, which fit on one page; and an editing      *)
(* session on six records of one shape, which the pagination splits in two *)
(* pages.                                                                  *)
(***************************************************************************)
\* The rows and the columns the template renders (lines 232, 242-243).
ShownRows == 0..(Len(paginatedDocuments) - 1)
ShownHeaders == Elems(tableHeaders)
\* The rows-per-page items the operator picks in the model.
PageSizeChoices == {5, 10}

\* fetchDocuments, fetchCollections and deleteDocument with everything that
\* calls them.
Next ==
  \/ \E c \in FindCallKinds, r \in Datasets : FindResolved(c, r)
  \/ \E c \in FindCallKinds, m \in Messages : FindRejected(c, m)
  \/ DocTimerFires
  \/ FilterClick
  \/ \E t \in FilterTexts : FilterInput(t)
  \/ \E c \in Collections : SelectCollection(c)
  \/ \E l \in CollectionLists : ListResolved(l)
  \/ \E m \in Messages : ListRejected(m)
  \/ CollTimerFires
  \/ AutoConnectRefresh
  \/ HandleDocumentAction
  \/ \E r \in ShownRows, b \in BOOLEAN : DeleteDocument(r, b)
  \/ \E d \in delCalls, b \in BOOLEAN : DeleteResolved(d, b)
  \/ \E d \in delCalls : DeleteRejected(d)

Spec == Init /\ [][Next]_vars

\* The grid once the list_collections call of onMounted has resolved.
InitMounted ==
  /\ collectionName = "users"
  /\ documents = <<>>
  /\ isLoading = FALSE
  /\ errorMessage = NoError
  /\ pageSize = InitialPageSize
  /\ currentPage = 1
  /\ filterQuery = "{}"
  /\ editingCell = NoCell
  /\ editValue = ""
  /\ isSaving = FALSE
  /\ collectionsList = <<"users", "orders">>
  /\ findCalls = [k \in FindCallKinds |-> 0]
  /\ listCalls = 0
  /\ updCalls = {}
  /\ delCalls = {}
  /\ docTimers = 0
  /\ collTimers = 0
  /\ docsFrom = NoCall
  /\ editRecId = ""
  /\ nCommits = 0
  /\ editorFocused = FALSE
  /\ opsDocumentId = ""
  /\ opsDocumentData = InitialDocumentData
  /\ opsUpdateData = InitialUpdateData
  /\ opsResultMessage = ""
  /\ opsIsLoading = FALSE
  /\ opsIsError = FALSE
  /\ opsCalls = {}

\* An editing session on records of every value type: loading, reloading,
\* activating cells, typing, committing.
NextEdit ==
  \/ \E c \in FindCallKinds, r \in {TypedDocs, <<>>} : FindResolved(c, r)
  \/ FilterClick
  \/ \E r \in ShownRows, h \in ShownHeaders : HandleCellClick(r, h)
  \/ \E t \in UserTexts : EditInput(t)
  \/ SaveEditThrows
  \/ SaveEditInvokes
  \/ \E u \in updCalls, b \in BOOLEAN : UpdateResolved(u, b)
  \/ \E u \in updCalls : UpdateRejected(u)

SpecEdit == InitMounted /\ [][NextEdit]_vars

\* An editing session on two pages of records: loading, paging, changing the
\* page size, activating cells, typing, committing.
NextPage ==
  \/ \E c \in FindCallKinds, r \in {ManyDocs, <<>>} : FindResolved(c, r)
  \/ FilterClick
  \/ PaginationFirst
  \/ PaginationPrev
  \/ PaginationNext
  \/ PaginationLast
  \/ \E n \in PageSizeChoices : SelectPageSize(n)
  \/ \E r \in ShownRows, h \in ShownHeaders : HandleCellClick(r, h)
  \/ \E t \in UserTexts : EditInput(t)
  \/ SaveEditInvokes
  \/ \E u \in updCalls, b \in BOOLEAN : UpdateResolved(u, b)
  \/ \E u \in updCalls : UpdateRejected(u)

SpecPage == InitMounted /\ [][NextPage]_vars

\* An editing session whose editor has the focus while the parent refreshes
\* the grid.  Every click of the operator outside the focused editor would
\* blur it first, so the operator's other gestures wait until the focus is
\* gone; the blur of a removed editor comes before anything else.
NextFocus ==
  \/ \E b \in BOOLEAN : RemovalBlur(b)
  \/ ~Detached /\ \E c \in FindCallKinds, r \in {TypedDocs, <<>>} : FindResolved(c, r)
  \/ ~editorFocused /\ FilterClick
  \/ ~Detached /\ AutoConnectRefresh
  \/ ~editorFocused /\ \E r \in ShownRows, h \in ShownHeaders : HandleCellClick(r, h)
  \/ FocusEditor
  \/ ~Detached /\ editorFocused /\ \E t \in UserTexts : EditInput(t)
  \/ ~Detached /\ editorFocused /\ SaveEditThrows
  \/ ~Detached /\ editorFocused /\ SaveEditInvokes
  \/ ~Detached /\ \E u \in updCalls, b \in BOOLEAN : UpdateResolved(u, b)
  \/ ~Detached /\ \E u \in updCalls : UpdateRejected(u)

SpecFocus == InitMounted /\ [][NextFocus]_vars

\* Browsing: loading eleven records or two heterogeneous ones by every way
\* fetchDocuments is called, paging with every rows-per-page item, changing
\* the filter text and the collection.
NextBrowse ==
  \/ \E c \in FindCallKinds, r \in {LongDocs, UsersDocs, <<>>} : FindResolved(c, r)
  \/ \E c \in FindCallKinds, m \in Messages : FindRejected(c, m)
  \/ DocTimerFires
  \/ AutoConnectRefresh
  \/ FilterClick
  \/ \E t \in FilterTexts : FilterInput(t)
  \/ \E c \in Collections : SelectCollection(c)
  \/ PaginationFirst
  \/ PaginationPrev
  \/ PaginationNext
  \/ PaginationLast
  \/ \E n \in PageSizeItems : SelectPageSize(n)

SpecBrowse == InitMounted /\ [][NextBrowse]_vars

\* The operations panel at work: typing into its three inputs, its three
\* buttons, the answers of its remote calls, and the grid's own remote calls
\* that the panel's event starts.
NextOps ==
  \/ \E t \in OpsDocumentTexts : OpsDocumentInput(t)
  \/ \E t \in OpsUpdateTexts : OpsUpdateInput(t)
  \/ \E i \in OpsTypedIds : OpsIdInput(i)
  \/ OpsInsertDocument
  \/ \E c \in opsCalls, i \in OpsInsertedIds : OpsInsertResolved(c, i)
  \/ \E c \in opsCalls : OpsInsertRejected(c)
  \/ OpsUpdateDocument
  \/ \E c \in opsCalls, b \in BOOLEAN : OpsUpdateResolved(c, b)
  \/ \E c \in opsCalls : OpsUpdateRejected(c)
  \/ OpsDeleteDocument
  \/ \E c \in opsCalls, b \in BOOLEAN : OpsDeleteResolved(c, b)
  \/ \E c \in opsCalls : OpsDeleteRejected(c)
  \/ \E t \in FilterTexts : FilterInput(t)
  \/ \E c \in FindCallKinds, r \in {TypedDocs, <<>>} : FindResolved(c, r)
  \/ \E l \in CollectionLists : ListResolved(l)

SpecOps == InitMounted /\ [][NextOps]_vars

(***************************************************************************)
(* Properties.                                                             *)
(***************************************************************************)
NotReadyMessages == {MsgNotReady, MsgNotReadyWrapped}
RetriedCalls == {c \in FindCallKinds : c.retry}

\* C1: in every reachable state 1 <= currentPage <= max(1, ceil(documents.length
\* / pageSize)): no change of page size or of the loaded records leaves
\* currentPage past the last page.
C1_PageInRange ==
  /\ 1 <= currentPage
  /\ currentPage <= Max(1, CeilDiv(Len(documents), pageSize.n))

\* C2: a find_documents answer is applied to the grid only when the call was
\* issued for the collection that is selected at the time it resolves; an answer
\* for a collection that is no longer selected is discarded.
C2_StaleFetchDiscarded ==
  [][\A c \in FindCallKinds, r \in Datasets :
        FindResolved(c, r) => c.coll = collectionName]_vars

\* C3: each loader has at most one retry timer pending at any time.
C3_OneRetryTimer == docTimers <= 1 /\ collTimers <= 1

\* C4 as stated: from the first not-initialized failure of a request until its
\* records are applied (a retry timer or a retried call is pending),
\* errorMessage is empty.
C4_NoErrorWhileRetrying ==
  (docTimers > 0 \/ \E c \in RetriedCalls : findCalls[c] > 0)
    => errorMessage = NoError

\* C4 as amended: the steps of a retried request never set errorMessage and
\* hand the request on exactly once.  A not-initialized failure leaves
\* errorMessage and the records as they are and turns the failed call into one
\* timer; the timer firing (with a filter that parses) clears errorMessage and
\* turns the timer into one call; the answer of a retried call is applied, as
\* the whole record collection, without touching errorMessage, and leaves
\* neither call nor timer behind.
C4_RetryChainQuiet ==
  [][/\ \A c \in FindCallKinds, m \in NotReadyMessages :
          FindRejected(c, m) =>
            /\ errorMessage' = errorMessage
            /\ documents' = documents
            /\ docTimers' = docTimers + 1
            /\ FindPending' = FindPending - 1
     /\ (DocTimerFires /\ FilterParses(filterQuery)) =>
            /\ errorMessage' = NoError
            /\ documents' = documents
            /\ docTimers' = docTimers - 1
            /\ FindPending' = FindPending + 1
     /\ \A c \in RetriedCalls, r \in Datasets :
          FindResolved(c, r) =>
            /\ errorMessage' = errorMessage
            /\ documents' = r
            /\ docTimers' = docTimers
            /\ FindPending' = FindPending - 1
    ]_vars

\* C4 witness: the records on display came from a retried call and no error
\* is shown.
C4_Witness ==
  /\ docsFrom \in RetriedCalls
  /\ documents # <<>>
  /\ errorMessage = NoError

\* C5: a failure whose message lacks the not-initialized part is terminal.  No
\* retry timer is scheduled; fetchDocuments sets errorMessage and empties the
\* records; fetchCollections sets errorMessage and leaves collectionsList,
\* collectionName and the records alone.
C5_TerminalFailure ==
  [][/\ \A c \in FindCallKinds :
          FindRejected(c, MsgOther) =>
            /\ errorMessage' = ErrFetchDocs
            /\ documents' = <<>>
            /\ docTimers' = docTimers
            /\ collTimers' = collTimers
     /\ ListRejected(MsgOther) =>
            /\ errorMessage' = ErrFetchColls
            /\ collectionsList' = collectionsList
            /\ collectionName' = collectionName
            /\ documents' = documents
            /\ docTimers' = docTimers
            /\ collTimers' = collTimers
    ]_vars

\* C5 witness: a terminal find_documents failure is on display, with the
\* records emptied and no timer pending.
C5_Witness ==
  /\ errorMessage = ErrFetchDocs
  /\ documents = <<>>
  /\ collectionsList # <<>>
  /\ docTimers = 0
  /\ collTimers = 0

JsonKinds == {"number", "string", "boolean", "null", "object", "array"}

\* C6 as stated: for a stored value of any JSON type, the value a commit sends
\* to update_document has the type of the stored value.
C6_TypePreservedAll ==
  \A u \in updCalls : u.ref.t \in JsonKinds => u.value.t = u.ref.t

\* C6 as amended: for a stored value of type number or string, the value a
\* commit sends to update_document and the value a successful commit stores in
\* the local record have the type of the stored value.
C6_TypePreserved ==
  [][/\ \A u \in updCalls' :
          u.ref.t \in {"number", "string"} => u.value.t = u.ref.t
     /\ \A u \in updCalls :
          (UpdateResolved(u, TRUE) /\ ~u.stale /\ u.ref.t \in {"number", "string"})
            => Get(documents'[u.idx], u.header).t = u.ref.t
    ]_vars

\* C6 witness: the numeric field that held 30 holds the number 31 after a
\* commit of the text "31".
C6_Witness ==
  /\ nCommits = 1
  /\ \E i \in 1..Len(documents) : Get(documents[i], "age") = Num("31")

\* C7: a commit on a numeric field with a text that is not a number never
\* reaches update_document.
C7_NonNumericRejected ==
  \A u \in updCalls : ~(u.ref.t = "number" /\ u.text \notin NumericTexts)

\* C8: the identifier sent to update_document is the one of the record whose
\* cell was activated.
C8_CommitTargetsActivated ==
  \A u \in updCalls : u.id = u.activated

\* Section 4.2 of the specification: the commits that are coercion failures.
IsCoercionFailure(ref, text) ==
  \/ ref.t = "number" /\ text \notin NumericTexts
  \/ ref.t \in {"object", "array"} /\ text \notin JsonTexts

\* C9: a commit that fails (a coercion failure, or update_document rejecting)
\* sets errorMessage and leaves the record collection as it was.
C9_FailedCommitLeavesRecords ==
  [][/\ SaveEditThrows =>
            errorMessage' = ErrUpdateField /\ documents' = documents
     /\ \A u \in updCalls :
          UpdateRejected(u) =>
            errorMessage' = ErrUpdateField /\ documents' = documents
     /\ \A u \in updCalls, b \in BOOLEAN :
          (UpdateResolved(u, b) /\ IsCoercionFailure(u.ref, u.text)) =>
            errorMessage' = ErrUpdateField /\ documents' = documents
    ]_vars

\* C10: whenever saveEdit completes, with any outcome, editingCell is null.
C10_CommitEndsSession ==
  [][(\/ SaveEditThrows
      \/ \E u \in updCalls : UpdateRejected(u)
      \/ \E u \in updCalls, b \in BOOLEAN : UpdateResolved(u, b))
        => editingCell' = NoCell]_vars

\* C11: while an update_document call issued by saveEdit has not settled, the
\* commit triggers issue no second one: at most one call of the grid is in
\* flight, and isSaving is set for as long as it is.
C11_OneCommitInFlight ==
  /\ Cardinality(updCalls) <= 1
  /\ (updCalls # {} => isSaving)

\* A commit is in flight while its editor is still shown with another text:
\* blur or Enter would now send a different call.
C11_Witness ==
  \E u \in updCalls : EditorShown /\ editValue # u.text

\* C12: when delete_document or update_document answers false, the grid
\* shows a message that is not a hard-failure message and documents is
\* unchanged.
HardFailureTexts ==
  {ErrInvalidFilter, ErrFetchDocs, ErrUpdateField, ErrDeleteDoc, ErrFetchColls}

C12_NotAffectedReported ==
  [][((\E d \in delCalls : DeleteResolved(d, FALSE))
       \/ (\E u \in updCalls : UpdateResolved(u, FALSE)))
     => /\ errorMessage' # NoError
        /\ errorMessage' \notin HardFailureTexts
        /\ documents' = documents]_vars


\* C13: for every page size the rows-per-page control can select, and the
\* initial one, every page p holds at most pageSize records and is
\* documents[(p-1)*pageSize .. p*pageSize); the pages in order put together
\* give documents back.
ExpectedPage(docs, s, p) ==
  LET lo == (p - 1) * s
      hi == Min(p * s, Len(docs))
  IN IF lo < hi THEN [i \in 1..(hi - lo) |-> docs[lo + i]] ELSE <<>>

RECURSIVE PagesTogether(_, _, _, _)
PagesTogether(docs, size, p, last) ==
  IF p > last THEN <<>>
  ELSE PageOf(docs, size, p) \o PagesTogether(docs, size, p + 1, last)

C13_PagesPartition ==
  /\ \A p \in 1..(Len(documents) + 1) :
        /\ Len(PageOf(documents, pageSize, p)) <= pageSize.n
        /\ PageOf(documents, pageSize, p) = ExpectedPage(documents, pageSize.n, p)
  /\ PagesTogether(documents, pageSize, 1, CeilDiv(Len(documents), pageSize.n))
       = documents

\* C14: the page count is max(1, ceil(total / pageSize)); it is 1 when no
\* record is loaded.
C14_PageCount ==
  totalPages = Max(1, CeilDiv(Len(documents), pageSize.n))

\* C15: tableHeaders starts with "_id", holds every field name of the loaded
\* records exactly once, in the order of first appearance scanning the
\* records in order, and the union run again over its own result changes
\* nothing; this in every state, so after every fetch and every commit.
FieldNames(docs) ==
  UNION {{docs[i].fields[j].k : j \in 1..Len(docs[i].fields)} : i \in 1..Len(docs)}

\* Where a field name is first met: the record, then the place in the record.
FirstSeen(docs, h) ==
  LET i == CHOOSE a \in 1..Len(docs) :
             /\ HasKey(docs[a], h)
             /\ \A b \in 1..(a - 1) : ~HasKey(docs[b], h)
      j == CHOOSE c \in 1..Len(docs[i].fields) : docs[i].fields[c].k = h
  IN i * 100 + j

C15_ColumnSet ==
  LET hs   == tableHeaders
      seen == [i \in 2..Len(hs) |-> FirstSeen(documents, hs[i])]
  IN /\ hs[1] = "_id"
     /\ Elems(hs) = {"_id"} \cup FieldNames(documents)
     /\ Cardinality(Elems(hs)) = Len(hs)
     /\ \A i \in 2..(Len(hs) - 1) : seen[i] < seen[i + 1]
     /\ HeadersFrom(hs, documents) = hs

\* A commit has given the first record a field it did not have.
C15_Witness ==
  /\ nCommits = 1
  /\ Len(documents) = 2
  /\ HasKey(documents[1], "age")
  /\ Len(tableHeaders) = 7

\* C16: with heterogeneous records every column a record lacks is rendered
\* as empty text, and for the records {_id: A, name: "Bob"} and
\* {_id: B, age: 5} the column set is [_id, name, age], the page of size 1
\* number 1 is record A alone with age empty and number 2 is record B alone
\* with name empty.
RenderedRow(doc, headers) ==
  [i \in 1..Len(headers) |-> formatValue(Get(doc, headers[i]))]

\* A page size of 1, as the number or as the string a Select item would write.
PageSizeOne(str) == [str |-> str, n |-> 1]

C16_HeterogeneousPages ==
  /\ \A i \in 1..Len(paginatedDocuments), h \in Elems(tableHeaders) :
        (h # "_id" /\ ~HasKey(paginatedDocuments[i], h))
          => formatValue(Get(paginatedDocuments[i], h)) = ""
  /\ documents = UsersDocs =>
        /\ tableHeaders = <<"_id", "name", "age">>
        /\ \A str \in BOOLEAN :
             /\ PageOf(documents, PageSizeOne(str), 1) = <<UsersDocs[1]>>
             /\ RenderedRow(PageOf(documents, PageSizeOne(str), 1)[1], tableHeaders)
                  = <<"A", "Bob", "">>
             /\ PageOf(documents, PageSizeOne(str), 2) = <<UsersDocs[2]>>
             /\ RenderedRow(PageOf(documents, PageSizeOne(str), 2)[1], tableHeaders)
                  = <<"B", "", "5">>

\* The two records are loaded and the table is rendered.
C16_Witness == documents = UsersDocs /\ TableShown /\ currentPage = 1

\* C17: when the filter text is not valid JSON, fetchDocuments invokes no
\* find_documents, shows the 'Invalid filter JSON' message, leaves documents
\* and currentPage as they are and returns with isLoading false.
FetchDocumentsCalled ==
  \/ FilterClick
  \/ DocTimerFires
  \/ AutoConnectRefresh
  \/ HandleDocumentAction
  \/ \E c \in Collections : SelectCollection(c)
  \/ \E l \in CollectionLists : ListResolved(l) /\ collectionName' # collectionName
  \/ \E d \in delCalls : DeleteResolved(d, TRUE)

C17_InvalidFilterBlocks ==
  [][(~FilterParses(filterQuery) /\ FetchDocumentsCalled)
       => /\ findCalls' = findCalls
          /\ errorMessage' = ErrInvalidFilter
          /\ documents' = documents
          /\ currentPage' = currentPage
          /\ isLoading' = FALSE]_vars

\* The message is shown over the records loaded before, nothing in flight.
C17_Witness ==
  /\ errorMessage = ErrInvalidFilter
  /\ ~FilterParses(filterQuery)
  /\ documents # <<>>
  /\ FindPending = 0
  /\ ~isLoading

\* C18: delete_document is invoked only by a confirmed deletion; when it
\* answers true the grid issues a find_documents call and leaves documents
\* to that fetch; a declined confirmation changes nothing.
DeleteInvokedOnlyConfirmed ==
  /\ (delCalls' \subseteq delCalls) \/ (\E r \in ShownRows : DeleteDocument(r, TRUE))
  /\ \A r \in ShownRows : DeleteDocument(r, FALSE) => UNCHANGED vars

C18_DeleteThenFind ==
  [][/\ DeleteInvokedOnlyConfirmed
     /\ \A d \in delCalls :
          DeleteResolved(d, TRUE)
            => /\ documents' = documents
               /\ findCalls' = [findCalls EXCEPT
                     ![[coll |-> collectionName, retry |-> FALSE]] = @ + 1]
    ]_vars

\* C18 as amended: when delete_document answers true the grid runs
\* fetchDocuments, which invokes find_documents when the filter text parses
\* and shows the 'Invalid filter JSON' message when it does not.
C18_DeleteThenFetchDocuments ==
  [][/\ DeleteInvokedOnlyConfirmed
     /\ \A d \in delCalls :
          DeleteResolved(d, TRUE)
            => /\ documents' = documents
               /\ IF FilterParses(filterQuery)
                  THEN /\ findCalls' = [findCalls EXCEPT
                            ![[coll |-> collectionName, retry |-> FALSE]] = @ + 1]
                       /\ isLoading'
                  ELSE /\ findCalls' = findCalls
                       /\ errorMessage' = ErrInvalidFilter
    ]_vars

\* A confirmed deletion of a loaded record is waiting for its answer.
C18_Witness ==
  \E d \in delCalls : \E i \in 1..Len(documents) : documents[i].oid = d.id

\* C19: after list_collections resolves, a non-empty list without the
\* selected name makes its first name the selection and a find_documents
\* call for it follows; otherwise the selection is unchanged and the load
\* triggers no fetch.
SelectionMoves(l) == Len(l) > 0 /\ collectionName \notin Elems(l)

C19_ListLoadThenFind ==
  [][\A l \in CollectionLists :
       ListResolved(l)
         => IF SelectionMoves(l)
            THEN /\ collectionName' = l[1]
                 /\ findCalls' = [findCalls EXCEPT
                       ![[coll |-> l[1], retry |-> FALSE]] = @ + 1]
            ELSE /\ collectionName' = collectionName
                 /\ findCalls' = findCalls
    ]_vars

\* C19 as amended: the watcher runs fetchDocuments for the new selection,
\* which invokes find_documents when the filter text parses and shows the
\* 'Invalid filter JSON' message when it does not.
C19_ListLoadThenFetchDocuments ==
  [][\A l \in CollectionLists :
       ListResolved(l)
         => IF SelectionMoves(l)
            THEN /\ collectionName' = l[1]
                 /\ IF FilterParses(filterQuery)
                    THEN /\ findCalls' = [findCalls EXCEPT
                              ![[coll |-> l[1], retry |-> FALSE]] = @ + 1]
                         /\ isLoading'
                    ELSE /\ findCalls' = findCalls
                         /\ errorMessage' = ErrInvalidFilter
            ELSE /\ collectionName' = collectionName
                 /\ findCalls' = findCalls
                 /\ UNCHANGED <<isLoading, errorMessage>>
    ]_vars

\* The list without 'users' has been loaded: 'orders' is selected and its
\* fetch is in flight.
C19_Witness ==
  /\ collectionsList = <<"orders">>
  /\ collectionName = "orders"
  /\ findCalls[[coll |-> "orders", retry |-> FALSE]] > 0
  /\ isLoading

\* C20: a change of the selected collection cancels the pending retry timers
\* of fetchDocuments, so that none scheduled before the change fires a fetch.
C20_RetryCancelledOnChange ==
  [][collectionName' # collectionName => docTimers' = 0]_vars

\* C21: first sets the current page to 1, prev to max(1, current - 1), next
\* to min(totalPages, current + 1), last to totalPages; from a current page
\* in 1..totalPages each of them leaves it in 1..totalPages and reports no
\* error.
Navigates == PaginationFirst \/ PaginationPrev \/ PaginationNext \/ PaginationLast

C21_NavigationSaturates ==
  [][/\ PaginationFirst => currentPage' = 1
     /\ PaginationPrev => currentPage' = Max(1, currentPage - 1)
     /\ PaginationNext => currentPage' = Min(totalPages, currentPage + 1)
     /\ PaginationLast => currentPage' = totalPages
     /\ (Navigates /\ currentPage \in 1..totalPages)
          => /\ currentPage' \in 1..totalPages
             /\ errorMessage' = errorMessage
             /\ documents' = documents
    ]_vars

\* The last of three pages has been reached.
C21_Witness == PaginationShown /\ currentPage = totalPages /\ currentPage = 3

\* C22: committing on a field whose stored value is an object or an array
\* with text that is not well-formed JSON invokes no update_document, sets
\* errorMessage and leaves the stored value as it is.
CompositeKinds == {"object", "array"}

C22_MalformedCompositeRejected ==
  [][/\ \A u \in updCalls' : u.ref.t \in CompositeKinds => u.text \in JsonTexts
     /\ (/\ SaveEditThrows
         /\ Get(documents[OriginalIdx], editingCell.header).t \in CompositeKinds)
          => /\ updCalls' = updCalls
             /\ errorMessage' = ErrUpdateField
             /\ documents' = documents
    ]_vars

\* The commit of a malformed text on a composite field has been refused.
C22_Witness ==
  /\ EditorShown
  /\ Get(documents[OriginalIdx], editingCell.header).t \in CompositeKinds
  /\ editValue \notin JsonTexts
  /\ errorMessage = ErrUpdateField
  /\ updCalls = {}
  /\ ~isSaving

\* C23: editingCell is null or one (rowIndex, header) whose header is not
\* '_id', in every state; activating an '_id' cell changes neither
\* editingCell nor editValue.
SessionValid(cell) == cell = NoCell \/ (cell.rowIndex >= 0 /\ cell.header # "_id")

C23_SessionNeverOnIdentifier ==
  [][/\ SessionValid(editingCell)
     /\ SessionValid(editingCell')
     /\ \A r \in ShownRows :
          HandleCellClick(r, "_id") => UNCHANGED <<editingCell, editValue>>
    ]_vars

\* A session is active on a rendered cell, next to the '_id' cell of its row.
C23_Witness == EditorShown /\ editingCell.header # "_id" /\ CellShown(0, "_id")

\* C25: a successful commit changes only the edited field of the edited
\* record: that field holds the coerced value, every other field and record,
\* the number of records, the current page and the page size are unchanged.
C25_CommitFrame ==
  [][\A u \in updCalls :
       UpdateResolved(u, TRUE)
         => /\ \E i \in 1..Len(documents) :
                 /\ documents[i].oid = u.id
                 /\ documents' = [documents EXCEPT ![i] = Put(@, u.header, u.value)]
            /\ currentPage' = currentPage
            /\ pageSize' = pageSize
    ]_vars

\* C26: activating a cell other than '_id' seeds editValue with
\* formatValue of the field's value, for every value: null, absent, object
\* and array included.
C26_SeededByFormatter ==
  [][\A r \in ShownRows, h \in ShownHeaders :
       (h # "_id" /\ HandleCellClick(r, h))
         => editValue' = formatValue(Get(paginatedDocuments[r + 1], h))
    ]_vars

\* C24: every find_documents call that resolves, whoever issued it, replaces
\* documents by the records returned and sets the current page to 1.
C24_FetchReplacesAndResets ==
  [][\A c \in FindCallKinds, r \in Answers :
       FindResolved(c, r) => documents' = r /\ currentPage' = 1]_vars

\* A fetch is in flight while page 3 of eleven records is the current page.
C24_Witness ==
  /\ documents = LongDocs
  /\ currentPage = 3
  /\ FindPending > 0

\* C27: the commit guard is never stuck: isSaving is true only while an
\* update_document call of saveEdit is waiting for its answer, whose
\* continuation resets it, on every path of saveEdit.
C27_GuardNeverStuck == isSaving => updCalls # {}

\* C28: whenever a find_documents call issued by fetchDocuments has not
\* settled, isLoading is true, also when several fetches overlap and one
\* settles before the others.
C28_LoadingTracksFetches == FindPending > 0 => isLoading

\* C29: a step of the operations panel starts the grid's refresh (a
\* find_documents or list_collections call of the grid) only when one of the
\* panel's remote calls settles with a success text; a step that ends with the
\* invalid-JSON or the missing-identifier text makes no remote call, starts
\* no refresh and leaves the panel's isLoading false; a step that ends with a
\* rejection text or a nothing-affected text starts no refresh and leaves
\* isLoading false.
OpsRefreshStarted == listCalls' # listCalls \/ findCalls' # findCalls
OpsSuccessTexts == {OpsInserted, OpsUpdated, OpsDeleted}
OpsRefusalTexts == {OpsInvalidJson, OpsIdRequiredUpdate, OpsIdRequiredDelete}
OpsFailureTexts == {OpsErrInsert, OpsErrUpdate, OpsErrDelete, OpsNotUpdated, OpsNotDeleted}
C29_EventOnlyAfterMutation ==
  [][opsVars' # opsVars =>
       /\ OpsRefreshStarted =>
            /\ opsCalls' # opsCalls
            /\ opsCalls' \subseteq opsCalls
            /\ opsResultMessage' \in OpsSuccessTexts
       /\ opsResultMessage' \in OpsRefusalTexts =>
            /\ opsCalls' = opsCalls
            /\ ~OpsRefreshStarted
            /\ ~opsIsLoading'
       /\ opsResultMessage' \in OpsFailureTexts =>
            /\ ~OpsRefreshStarted
            /\ ~opsIsLoading']_vars
C29_Witness ==
  /\ opsResultMessage = OpsNotUpdated
  /\ opsDocumentId = "n1"
  /\ ~opsIsLoading
  /\ listCalls = 0

=============================================================================
